---- MODULE Spec2Model ----
(***************************************************************************)
(* Model of the concept-graph view of the knowledge-web frontend:          *)
(*   - KnowledgeGraphPage (graph loading, frontier expansion, selection),  *)
(*   - ConceptGraph3D / Scene / NodeMesh / EdgeLine (d3-force layout,      *)
(*     level-of-detail visibility, opacity fade, render composition),      *)
(*   - the legacy App selection handlers.                                  *)
(* Distances are kept in hundredths of a world unit, opacities in          *)
(* ten-thousandths of full opacity.                                        *)
(***************************************************************************)
EXTENDS Integers, Sequences, FiniteSets, TLC

VARIABLES
    \* ---- backend content (getDocumentGraph answers) ----
    server,
    \* ---- KnowledgeGraphPage props and state ----
    initialDocumentId, initialDocumentTitle,
    documentId, documentTitle, graphData, isLoadingGraph,
    selectedNode, selectedEdge, visibleNodeIds,
    \* ---- KnowledgeGraphPage: async bookkeeping ----
    inflight, nextReq, effectPending,
    \* ---- ConceptGraph3D / Scene / NodeMesh state ----
    sceneStatus,      \* "none" (not mounted), "live", "crashed" (render threw)
    camera,           \* camera.position.length()
    cameraDistance,   \* Scene state driving the LOD test
    currentZoom,      \* ConceptGraph3D state driving the zoom indicator
    zoomDelta,
    opacity,          \* NodeMesh opacity, by node id
    hovered,          \* ids of the NodeMesh whose hovered flag is set
    frames,           \* frames rendered since the scene mounted
    \* ---- legacy App (upload view / 2D graph view) state ----
    appView, appDocumentTitle, appGraphData, appSelectedNode, appSelectedEdge,
    appIsLoadingGraph, appStats, appInflight,
    appSimulation,    \* 2D ConceptGraph: "none", "initial", "running", "settled"
    \* ---- ConceptGraph3D, hierarchical and orbital variants: layout ----
    layoutVariant,    \* "none", "hierarchical" or "orbital"
    nodes3D,          \* the laid-out node list
    hoveredEdgeId,    \* orbital Scene: id of the line under the pointer
    \* ---- EnhancedConceptGraph: single / double click detection ----
    clickTimerRef,        \* id of the timer the ref holds, 0 for null
    lastClickedNodeRef,   \* node id the ref holds, or NULL
    clickTimers,          \* pending 250 ms timers, oldest first
    timersMade,           \* timers created so far
    emitted,              \* calls of onNodeSelect / onNodeExpand, in order
    \* ---- FlashcardDialog ----
    cards,                \* cards.length, 0 until the cards are loaded
    currentIndex,
    isFlipped,
    indexTimers           \* pending 150 ms index updates, oldest first

pageVars == <<initialDocumentId, initialDocumentTitle, documentId, documentTitle,
              graphData, isLoadingGraph, selectedNode, selectedEdge,
              visibleNodeIds, inflight, nextReq, effectPending>>

sceneVars == <<sceneStatus, camera, cameraDistance, currentZoom, zoomDelta,
               opacity, hovered, frames>>

appVars == <<appView, appDocumentTitle, appGraphData, appSelectedNode,
             appSelectedEdge, appIsLoadingGraph, appStats, appInflight,
             appSimulation>>

layoutVars == <<layoutVariant, nodes3D, hoveredEdgeId>>

widgetVars == <<clickTimerRef, lastClickedNodeRef, clickTimers, timersMade,
                emitted, cards, currentIndex, isFlipped, indexTimers>>

vars == <<server, pageVars, sceneVars, appVars, layoutVars, widgetVars>>

\* --------------------------------------------------------------------------
\* Bounds of the model
\* --------------------------------------------------------------------------
\* longest relationship list of a generated graph
MaxRels == 2
\* number of getDocumentGraph calls issued in one behaviour
MaxFetches == 3
\* frames rendered per mount of the scene
MaxFrames == 2
\* longest concept list handed to the hierarchical and orbital layouts
MaxConcepts == 3

\* --------------------------------------------------------------------------
\* Values
\* --------------------------------------------------------------------------
NULL == "null"
NoEdge == <<>>
Undefined == -1

Min(a, b) == IF a < b THEN a ELSE b

Concept(id, depth, prio) ==
    [id |-> id, depth_level |-> depth, priority |-> prio, label |-> id,
     semantic_type |-> "variable"]
Rel(s, t) == [source |-> s, target |-> t]

NullGraph == [null |-> TRUE, concepts |-> <<>>, relationships |-> <<>>]
Graph(cs, rs) == [null |-> FALSE, concepts |-> cs, relationships |-> rs]

SeqRange(s) == {s[i] : i \in 1..Len(s)}
ConceptIds(g) == {g.concepts[i].id : i \in 1..Len(g.concepts)}

\* ---- sample graphs ----
NodeA == Concept("A", 0, 1)
NodeB == Concept("B", 1, 2)
NodeC == Concept("C", 2, 3)

\* the A-B-C chain of the specification's scenario
ScenarioGraph == Graph(<<NodeA, NodeB, NodeC>>, <<Rel("A", "B"), Rel("B", "C")>>)

\* a hub with eight leaves and a two-step tail: eleven connected ids, so the
\* seed's cut to eight entries leaves three concepts unrevealed
HubGraph ==
    Graph(<<Concept("H", 0, 1),
            Concept("L1", 1, 2), Concept("L2", 1, 2), Concept("L3", 1, 2),
            Concept("L4", 1, 2), Concept("L5", 1, 2), Concept("L6", 1, 2),
            Concept("L7", 1, 2), Concept("L8", 1, 2),
            Concept("M", 2, 3), Concept("N", 3, 3)>>,
          <<Rel("H", "L1"), Rel("H", "L2"), Rel("H", "L3"), Rel("H", "L4"),
            Rel("H", "L5"), Rel("H", "L6"), Rel("H", "L7"), Rel("H", "L8"),
            Rel("L8", "M"), Rel("M", "N")>>)

\* ---- generated graphs: a prefix of A, B, C and up to MaxRels relationships ----
ConceptLists == {<<>>, <<NodeA>>, <<NodeA, NodeB>>, <<NodeA, NodeB, NodeC>>}
RelPool == {Rel("A", "B"), Rel("B", "C"), Rel("C", "A")}
RelLists == UNION {[1..n -> RelPool] : n \in 0..MaxRels}
GeneratedGraphs == {Graph(cs, rs) : cs \in ConceptLists, rs \in RelLists}
AllGraphs == GeneratedGraphs \cup {HubGraph}


Docs == {"d1", "d2"}
TitleOf(doc) == IF doc = "d1" THEN "Title 1" ELSE "Title 2"

\* --------------------------------------------------------------------------
\* KnowledgeGraphPage: pure parts
\* --------------------------------------------------------------------------
\* connections.set(id, (connections.get(id) || 0) + 1) on an insertion-ordered Map
Bump(conn, id) ==
    IF \E i \in 1..Len(conn) : conn[i][1] = id
    THEN [i \in 1..Len(conn) |->
            IF conn[i][1] = id THEN <<id, conn[i][2] + 1>> ELSE conn[i]]
    ELSE Append(conn, <<id, 1>>)

RECURSIVE Connections(_)
Connections(rels) ==
    IF rels = <<>> THEN <<>>
    ELSE LET r == rels[Len(rels)]
             before == Connections(SubSeq(rels, 1, Len(rels) - 1))
         IN Bump(Bump(before, r.source), r.target)

\* variant of the sort step with the comparator turned round: fewest first
InsertByCountAscending(sorted, e) ==
    LET k == Cardinality({i \in 1..Len(sorted) : sorted[i][2] <= e[2]})
    IN SubSeq(sorted, 1, k) \o <<e>> \o SubSeq(sorted, k + 1, Len(sorted))

\* one step of a stable sort with comparator (a, b) => b[1] - a[1]
InsertByCount(sorted, e) ==
    LET k == Cardinality({i \in 1..Len(sorted) : sorted[i][2] >= e[2]})
    IN SubSeq(sorted, 1, k) \o <<e>> \o SubSeq(sorted, k + 1, Len(sorted))

RECURSIVE SortByCountDesc(_)
SortByCountDesc(entries) ==
    IF entries = <<>> THEN <<>>
    ELSE InsertByCount(SortByCountDesc(SubSeq(entries, 1, Len(entries) - 1)),
                       entries[Len(entries)])

TopSlice == 8

TopNodes(data) ==
    LET sorted == SortByCountDesc(Connections(data.relationships))
        top == SubSeq(sorted, 1, Min(TopSlice, Len(sorted)))
    IN {top[i][1] : i \in 1..Len(top)}

\* variant of the neighbourhood that follows relationships backwards only
NeighborsIncoming(data, id) ==
    {data.relationships[i].source :
        i \in {j \in 1..Len(data.relationships) : data.relationships[j].target = id}}

Neighbors(data, id) ==
    {data.relationships[i].target :
        i \in {j \in 1..Len(data.relationships) : data.relationships[j].source = id}}
    \cup
    {data.relationships[i].source :
        i \in {j \in 1..Len(data.relationships) : data.relationships[j].target = id}}

\* variants of the expansion: the new set built from the neighbours alone,
\* and a toggle that hides neighbours that are already shown
ExpandVisibleFromNeighbors(prev, neighbors) == neighbors
ExpandVisibleToggle(prev, neighbors) == (prev \ neighbors) \cup (neighbors \ prev)

\* setVisibleNodeIds(prev => new Set(prev) plus every neighbour)
ExpandVisible(prev, neighbors) == prev \cup neighbors

GetVisibleGraphData(data, visible) ==
    IF data.null THEN [concepts |-> <<>>, relationships |-> <<>>]
    ELSE LET InC(c) == c.id \in visible
             InR(r) == r.source \in visible /\ r.target \in visible
         IN [concepts |-> SelectSeq(data.concepts, InC),
             relationships |-> SelectSeq(data.relationships, InR)]

\* the render branch that mounts <ConceptGraph3D graphData={graphData} .../>
Mounts(loading, data, visible) ==
    /\ ~loading
    /\ ~data.null
    /\ Len(GetVisibleGraphData(data, visible).concepts) > 0

GraphMounted == Mounts(isLoadingGraph, graphData, visibleNodeIds)

\* edges3D of the mounted component: id `edge-${source}-${target}-${i}`
EdgeId(data, i) == <<data.relationships[i].source, data.relationships[i].target, i>>

\* an edge the scene offers for clicking: both endpoints resolve in nodeMap
ClickableEdges(data) ==
    {i \in 1..Len(data.relationships) :
        /\ data.relationships[i].source \in ConceptIds(data)
        /\ data.relationships[i].target \in ConceptIds(data)}

\* graphs mounted in the scene specification
DanglingGraph == Graph(<<NodeA, NodeB>>, <<Rel("A", "B"), Rel("A", "X")>>)
\* depth levels absent, at the last tier and beyond the table; G has no
\* relationship, so no load seeds it and no expansion reveals it
MixedGraph ==
    Graph(<<Concept("D", Undefined, 1), Concept("E", 3, 3), Concept("F", 4, 3),
            Concept("G", 1, 2)>>,
          <<Rel("D", "E"), Rel("E", "F")>>)
SceneGraphs == {ScenarioGraph, DanglingGraph, MixedGraph}

\* --------------------------------------------------------------------------
\* ConceptGraph3D (d3-force variant): pure parts
\* --------------------------------------------------------------------------
Infinity == 999999
\* the length() of a camera position with a non-finite component; every
\* comparison with it is false and arithmetic on it gives NaN again
NaN == -1
LOD_THRESHOLDS == [k \in 0..3 |-> CASE k = 0 -> Infinity
                                    [] k = 1 -> 2500
                                    [] k = 2 -> 1800
                                    [] k = 3 -> 1000]
LodFallback == 1000

InitialCamera == 1876
InitialCameraDistance == 1500
InitialZoom == 1500
MinDistance == 200
MaxDistance == 3500
TrackingStep == 30

OpacityOne == 100 * 100
\* `if (opacity < 0.01) return null`
RenderFloor == OpacityOne \div 100

Abs(x) == IF x < 0 THEN 0 - x ELSE x

\* d3.forceLink(links).id(d => d.id): initialising the force resolves every
\* link end by id and throws "node not found" for an id that is no node
ForceLayoutThrows(data) ==
    \E i \in 1..Len(data.relationships) :
        \/ data.relationships[i].source \notin ConceptIds(data)
        \/ data.relationships[i].target \notin ConceptIds(data)

\* nodes3D: the concepts in order (positions are not modelled here)
Nodes3D(data) == data.concepts

\* edges3D: one entry per relationship, in order
Edges3D(data) ==
    [i \in 1..Len(data.relationships) |->
        [id |-> EdgeId(data, i),
         source |-> data.relationships[i].source,
         target |-> data.relationships[i].target]]

\* nodeMap.get(id): the last node carrying the id (Map.set overwrites)
HasNode(data, id) == id \in ConceptIds(data)
NodeById(data, id) ==
    LET k == CHOOSE i \in 1..Len(data.concepts) :
                 /\ data.concepts[i].id = id
                 /\ \A j \in (i + 1)..Len(data.concepts) : data.concepts[j].id # id
    IN data.concepts[k]

\* variant of the distance test with the comparison turned round
IsNodeVisibleBeyond(node, camDistance) ==
    LET depthLevel == IF node.depth_level = Undefined THEN 0 ELSE node.depth_level
        threshold == IF depthLevel \in DOMAIN LOD_THRESHOLDS
                     THEN LOD_THRESHOLDS[depthLevel] ELSE LodFallback
    IN camDistance > threshold

\* variant of the distance test that still shows a node at its threshold
IsNodeVisibleUpTo(node, camDistance) ==
    LET depthLevel == IF node.depth_level = Undefined THEN 0 ELSE node.depth_level
        threshold == IF depthLevel \in DOMAIN LOD_THRESHOLDS
                     THEN LOD_THRESHOLDS[depthLevel] ELSE LodFallback
    IN camDistance <= threshold

IsNodeVisible(node, camDistance) ==
    LET depthLevel == IF node.depth_level = Undefined THEN 0 ELSE node.depth_level
        threshold == IF depthLevel \in DOMAIN LOD_THRESHOLDS
                     THEN LOD_THRESHOLDS[depthLevel] ELSE LodFallback
    IN camDistance # NaN /\ camDistance < threshold

\* variant of the edge test that is content with one visible end
IsEdgeVisibleEitherEnd(data, sourceId, targetId, camDistance) ==
    IF ~HasNode(data, sourceId) \/ ~HasNode(data, targetId) THEN FALSE
    ELSE \/ IsNodeVisible(NodeById(data, sourceId), camDistance)
         \/ IsNodeVisible(NodeById(data, targetId), camDistance)

IsEdgeVisible(data, sourceId, targetId, camDistance) ==
    IF ~HasNode(data, sourceId) \/ ~HasNode(data, targetId) THEN FALSE
    ELSE /\ IsNodeVisible(NodeById(data, sourceId), camDistance)
         /\ IsNodeVisible(NodeById(data, targetId), camDistance)

\* variant of the opacity step that jumps to the target at once
OpacityStepSnap(prev, isVisible) ==
    IF isVisible THEN OpacityOne ELSE 0

\* NodeMesh useFrame: prev + (targetOpacity - prev) * 0.1
OpacityStep(prev, isVisible) ==
    LET targetOpacity == IF isVisible THEN OpacityOne ELSE 0
    IN prev + ((targetOpacity - prev) \div 10)

\* ---- what the scene draws ----
\* NodeMesh returns null while opacity < 0.01
RenderedNodes == {id \in DOMAIN opacity : opacity[id] >= RenderFloor}

\* Scene maps an edge to null unless both ends resolve; EdgeLine returns null
\* unless isVisible
RenderedEdges ==
    IF sceneStatus # "live" THEN {}
    ELSE {i \in 1..Len(graphData.relationships) :
            LET e == Edges3D(graphData)[i]
            IN /\ HasNode(graphData, e.source)
               /\ HasNode(graphData, e.target)
               /\ IsEdgeVisible(graphData, e.source, e.target, cameraDistance)}

\* --------------------------------------------------------------------------
\* Mounting and unmounting of the scene by the page's render branch
\* --------------------------------------------------------------------------
SceneIs(status, cam, camDist, zoom, delta, op, hov, fr) ==
    /\ sceneStatus' = status
    /\ camera' = cam
    /\ cameraDistance' = camDist
    /\ currentZoom' = zoom
    /\ zoomDelta' = delta
    /\ opacity' = op
    /\ hovered' = hov
    /\ frames' = fr

NoOpacity == [id \in {} |-> 0]

SceneUnmounted(status) ==
    SceneIs(status, InitialCamera, InitialCameraDistance, InitialZoom, 0,
            NoOpacity, {}, 0)

SceneFresh(data) ==
    IF ForceLayoutThrows(data)
    THEN SceneUnmounted("crashed")
    ELSE SceneIs("live", InitialCamera, InitialCameraDistance, InitialZoom, 0,
                 [id \in ConceptIds(data) |-> 0], {}, 0)

\* the layout useMemo re-runs for a new graphData object; NodeMesh instances
\* are keyed by node id and keep their state
SceneRegraphed(data) ==
    IF ForceLayoutThrows(data)
    THEN SceneUnmounted("crashed")
    ELSE /\ opacity' = [id \in ConceptIds(data) |->
                          IF id \in DOMAIN opacity THEN opacity[id] ELSE 0]
         /\ hovered' = hovered \cap ConceptIds(data)
         /\ UNCHANGED <<sceneStatus, camera, cameraDistance, currentZoom,
                        zoomDelta, frames>>

\* scene state after a commit of the page; newGraph: graphData is a new object
SceneFollows(newGraph) ==
    IF Mounts(isLoadingGraph', graphData', visibleNodeIds')
    THEN IF sceneStatus = "none" THEN SceneFresh(graphData')
         ELSE IF newGraph THEN SceneRegraphed(graphData')
         ELSE UNCHANGED sceneVars
    ELSE SceneUnmounted("none")

\* an uncaught render error unmounts the whole React tree
Alive == sceneStatus # "crashed"

\* --------------------------------------------------------------------------
\* KnowledgeGraphPage: actions
\* --------------------------------------------------------------------------
\* the parent passes another document (loadChatSession / handleDocumentProcessed)
Navigate(doc) ==
    /\ Alive
    /\ ~effectPending
    /\ doc # initialDocumentId
    /\ initialDocumentId' = doc
    /\ initialDocumentTitle' = TitleOf(doc)
    /\ effectPending' = TRUE
    /\ UNCHANGED <<layoutVars, widgetVars, appVars, server, documentId, documentTitle, graphData, isLoadingGraph,
                   selectedNode, selectedEdge, visibleNodeIds, inflight, nextReq>>
    /\ UNCHANGED sceneVars

\* loadGraph up to its await
LoadGraphStart(docId) ==
    /\ nextReq < MaxFetches
    /\ isLoadingGraph' = TRUE
    /\ selectedNode' = NULL
    /\ selectedEdge' = NoEdge
    /\ visibleNodeIds' = {}
    /\ inflight' = inflight \cup {[req |-> nextReq, doc |-> docId]}
    /\ nextReq' = nextReq + 1

\* the load useEffect, run after a commit that changed one of its dependencies
RunEffect ==
    /\ Alive
    /\ effectPending
    /\ IF /\ initialDocumentId # NULL
          /\ initialDocumentTitle # ""
          /\ initialDocumentId # documentId
       THEN /\ LoadGraphStart(initialDocumentId)
            /\ effectPending' = ~isLoadingGraph
       ELSE IF initialDocumentId # NULL /\ graphData.null /\ ~isLoadingGraph
       THEN /\ LoadGraphStart(initialDocumentId)
            /\ effectPending' = TRUE
       ELSE /\ effectPending' = FALSE
            /\ UNCHANGED <<isLoadingGraph, selectedNode, selectedEdge,
                           visibleNodeIds, inflight, nextReq>>
    /\ UNCHANGED <<layoutVars, widgetVars, appVars, server, initialDocumentId, initialDocumentTitle,
                   documentId, documentTitle, graphData>>
    /\ SceneFollows(FALSE)

\* variant of the answer's handling that files every answer under the
\* document requested last
FetchResolveAsRequested(r) ==
    /\ Alive
    /\ ~effectPending
    /\ r \in inflight
    /\ inflight' = inflight \ {r}
    /\ graphData' = server[r.doc]
    /\ documentId' = initialDocumentId
    /\ documentTitle' = TitleOf(r.doc)
    /\ visibleNodeIds' = TopNodes(server[r.doc])
    /\ isLoadingGraph' = FALSE
    /\ effectPending' = TRUE
    /\ UNCHANGED <<layoutVars, widgetVars, appVars, server, initialDocumentId, initialDocumentTitle,
                   selectedNode, selectedEdge, nextReq>>
    /\ SceneFollows(TRUE)

\* loadGraph after its await: the fetch of request r answered; the answer is
\* a new object, so the effect's graphData dependency always changes
FetchResolve(r) ==
    /\ Alive
    /\ ~effectPending
    /\ r \in inflight
    /\ inflight' = inflight \ {r}
    /\ graphData' = server[r.doc]
    /\ documentId' = r.doc
    /\ documentTitle' = TitleOf(r.doc)
    /\ visibleNodeIds' = TopNodes(server[r.doc])
    /\ isLoadingGraph' = FALSE
    /\ effectPending' = TRUE
    /\ UNCHANGED <<layoutVars, widgetVars, appVars, server, initialDocumentId, initialDocumentTitle,
                   selectedNode, selectedEdge, nextReq>>
    /\ SceneFollows(TRUE)

\* loadGraph after its await: the fetch of request r failed (catch, finally)
FetchReject(r) ==
    /\ Alive
    /\ ~effectPending
    /\ r \in inflight
    /\ inflight' = inflight \ {r}
    /\ isLoadingGraph' = FALSE
    /\ effectPending' = isLoadingGraph
    /\ UNCHANGED <<layoutVars, widgetVars, appVars, server, initialDocumentId, initialDocumentTitle, documentId,
                   documentTitle, graphData, selectedNode, selectedEdge,
                   visibleNodeIds, nextReq>>
    /\ SceneFollows(FALSE)

\* the handlers the page passes to ConceptGraph3D
HandleNodeSelect(id) ==
    /\ selectedNode' = id
    /\ selectedEdge' = NoEdge

HandleNodeExpand(id) ==
    /\ IF graphData.null
       THEN UNCHANGED <<visibleNodeIds, selectedNode, selectedEdge>>
       ELSE /\ visibleNodeIds' = ExpandVisible(visibleNodeIds, Neighbors(graphData, id))
            /\ HandleNodeSelect(id)

\* variant of the edge selection that keeps the node selection
HandleEdgeSelectKeepNode(i) ==
    /\ selectedEdge' = EdgeId(graphData, i)
    /\ UNCHANGED selectedNode

HandleEdgeSelect(i) ==
    /\ selectedEdge' = EdgeId(graphData, i)
    /\ selectedNode' = NULL

\* ---- the page seen through its callback interface ----
OnNodeSelect(id) ==
    /\ Alive /\ ~effectPending /\ GraphMounted
    /\ id \in ConceptIds(graphData)
    /\ HandleNodeSelect(id)
    /\ UNCHANGED <<layoutVars, widgetVars, appVars, server, initialDocumentId, initialDocumentTitle, documentId,
                   documentTitle, graphData, isLoadingGraph, visibleNodeIds,
                   inflight, nextReq, effectPending>>
    /\ SceneFollows(FALSE)

OnNodeExpand(id) ==
    /\ Alive /\ ~effectPending /\ GraphMounted
    /\ id \in ConceptIds(graphData)
    /\ HandleNodeExpand(id)
    /\ UNCHANGED <<layoutVars, widgetVars, appVars, server, initialDocumentId, initialDocumentTitle, documentId,
                   documentTitle, graphData, isLoadingGraph,
                   inflight, nextReq, effectPending>>
    /\ SceneFollows(FALSE)

OnEdgeSelect(i) ==
    /\ Alive /\ ~effectPending /\ GraphMounted
    /\ i \in ClickableEdges(graphData)
    /\ HandleEdgeSelect(i)
    /\ UNCHANGED <<layoutVars, widgetVars, appVars, server, initialDocumentId, initialDocumentTitle, documentId,
                   documentTitle, graphData, isLoadingGraph, visibleNodeIds,
                   inflight, nextReq, effectPending>>
    /\ SceneFollows(FALSE)

\* RightPanel onClose
ClosePanel ==
    /\ Alive /\ ~effectPending
    /\ selectedNode' = NULL
    /\ selectedEdge' = NoEdge
    /\ UNCHANGED <<layoutVars, widgetVars, appVars, server, initialDocumentId, initialDocumentTitle, documentId,
                   documentTitle, graphData, isLoadingGraph, visibleNodeIds,
                   inflight, nextReq, effectPending>>
    /\ SceneFollows(FALSE)

\* --------------------------------------------------------------------------
\* Scene / NodeMesh / EdgeLine: actions
\* --------------------------------------------------------------------------
SceneLive == sceneStatus = "live" /\ ~effectPending

pageFrame == <<layoutVars, widgetVars, appVars, server, initialDocumentId, initialDocumentTitle, documentId,
               documentTitle, graphData, isLoadingGraph, inflight, nextReq,
               effectPending>>

\* one rendered frame: Scene's useFrame (zoom buttons, camera tracking) and
\* every NodeMesh's useFrame (opacity), all reading the last committed state
Frame ==
    /\ SceneLive
    /\ frames < MaxFrames
    /\ LET newDist == IF camera = NaN THEN NaN
                      ELSE IF zoomDelta > 0 THEN (camera * 9) \div 10
                      ELSE (camera * 11) \div 10
           moved == IF /\ zoomDelta # 0
                       /\ newDist # NaN
                       /\ newDist >= MinDistance /\ newDist <= MaxDistance
                    THEN newDist ELSE camera
       IN /\ camera' = moved
          /\ zoomDelta' = 0
          /\ IF moved # NaN /\ Abs(moved - cameraDistance) > TrackingStep
             THEN cameraDistance' = moved /\ currentZoom' = moved
             ELSE UNCHANGED <<cameraDistance, currentZoom>>
    /\ opacity' = [id \in DOMAIN opacity |->
                     OpacityStep(opacity[id],
                                 IsNodeVisible(NodeById(graphData, id), cameraDistance))]
    /\ frames' = frames + 1
    /\ UNCHANGED <<sceneStatus, hovered>>
    /\ UNCHANGED <<pageFrame, selectedNode, selectedEdge, visibleNodeIds>>

CameraSamples == {500, 1000, 2500}

\* OrbitControls moves the camera (drag, wheel), within minDistance..maxDistance
OrbitChange(d) ==
    /\ SceneLive
    /\ d >= MinDistance /\ d <= MaxDistance
    /\ camera' = d
    /\ UNCHANGED <<sceneStatus, cameraDistance, currentZoom, zoomDelta, opacity,
                   hovered, frames>>
    /\ UNCHANGED <<pageFrame, selectedNode, selectedEdge, visibleNodeIds>>

\* the controls leave the camera at a position that is not a number
OrbitNaN ==
    /\ SceneLive
    /\ camera' = NaN
    /\ UNCHANGED <<sceneStatus, cameraDistance, currentZoom, zoomDelta, opacity,
                   hovered, frames>>
    /\ UNCHANGED <<pageFrame, selectedNode, selectedEdge, visibleNodeIds>>

\* OrbitControls onEnd
OrbitEnd ==
    /\ SceneLive
    /\ currentZoom' = camera
    /\ UNCHANGED <<sceneStatus, camera, cameraDistance, zoomDelta, opacity,
                   hovered, frames>>
    /\ UNCHANGED <<pageFrame, selectedNode, selectedEdge, visibleNodeIds>>

HandleZoom(delta) ==
    /\ SceneLive
    /\ zoomDelta' = delta
    /\ UNCHANGED <<sceneStatus, camera, cameraDistance, currentZoom, opacity,
                   hovered, frames>>
    /\ UNCHANGED <<pageFrame, selectedNode, selectedEdge, visibleNodeIds>>

HandleZoomIn == HandleZoom(1)
HandleZoomOut == HandleZoom(-1)

\* NodeMesh onPointerOver / onPointerOut (one pointer: it is over one mesh)
\* variant of the hover that commits the hovered node as the selection
PointerOverSelecting(id) ==
    /\ SceneLive
    /\ id \in RenderedNodes
    /\ hovered \subseteq {id}
    /\ hovered' = hovered \cup {id}
    /\ HandleNodeSelect(id)
    /\ UNCHANGED <<sceneStatus, camera, cameraDistance, currentZoom, zoomDelta,
                   opacity, frames>>
    /\ UNCHANGED <<pageFrame, visibleNodeIds>>

PointerOver(id) ==
    /\ SceneLive
    /\ id \in RenderedNodes
    /\ hovered \subseteq {id}
    /\ hovered' = IF IsNodeVisible(NodeById(graphData, id), cameraDistance)
                  THEN hovered \cup {id} ELSE hovered
    /\ UNCHANGED <<sceneStatus, camera, cameraDistance, currentZoom, zoomDelta,
                   opacity, frames>>
    /\ UNCHANGED <<pageFrame, selectedNode, selectedEdge, visibleNodeIds>>

PointerOut(id) ==
    /\ SceneLive
    /\ id \in RenderedNodes
    /\ hovered' = hovered \ {id}
    /\ UNCHANGED <<sceneStatus, camera, cameraDistance, currentZoom, zoomDelta,
                   opacity, frames>>
    /\ UNCHANGED <<pageFrame, selectedNode, selectedEdge, visibleNodeIds>>

\* NodeMesh onClick -> handleNodeClick -> onNodeSelect
NodeClick(id) ==
    /\ SceneLive
    /\ id \in RenderedNodes
    /\ IF IsNodeVisible(NodeById(graphData, id), cameraDistance)
       THEN HandleNodeSelect(id)
       ELSE UNCHANGED <<selectedNode, selectedEdge>>
    /\ UNCHANGED <<pageFrame, visibleNodeIds>>
    /\ SceneFollows(FALSE)

\* NodeMesh onDoubleClick -> handleNodeDoubleClick -> onNodeExpand
NodeDoubleClick(id) ==
    /\ SceneLive
    /\ id \in RenderedNodes
    /\ IF IsNodeVisible(NodeById(graphData, id), cameraDistance)
       THEN HandleNodeExpand(id)
       ELSE UNCHANGED <<selectedNode, selectedEdge, visibleNodeIds>>
    /\ UNCHANGED pageFrame
    /\ SceneFollows(FALSE)

\* EdgeLine onClick -> handleEdgeClick -> onEdgeSelect
EdgeClick(i) ==
    /\ SceneLive
    /\ i \in RenderedEdges
    /\ HandleEdgeSelect(i)
    /\ UNCHANGED <<pageFrame, visibleNodeIds>>
    /\ SceneFollows(FALSE)

\* --------------------------------------------------------------------------
\* ConceptGraph3D (hierarchical and orbital variants): layout
\* --------------------------------------------------------------------------
\* concepts as the layouts read them: label and semantic_type beside the depth
LayoutConcept(id, depth, label, type) ==
    [id |-> id, depth_level |-> depth, priority |-> 1, label |-> label,
     semantic_type |-> type]

ConceptPool ==
    {LayoutConcept("A", 0, "Torque", "law"),
     LayoutConcept("A", 1, "End User", "entity"),
     LayoutConcept("B", 1, "End User", "process"),
     LayoutConcept("C", 2, "Torque", "variable"),
     LayoutConcept("D", Undefined, "Force", "law"),
     LayoutConcept("E", 1, "Momentum", "entity")}

LayoutGraphs ==
    {Graph(cs, <<>>) : cs \in UNION {[1..n -> ConceptPool] : n \in 0..MaxConcepts}}

UniqueIds(data) ==
    \A i, j \in 1..Len(data.concepts) :
        data.concepts[i].id = data.concepts[j].id => i = j

Max(a, b) == IF a > b THEN a ELSE b

RECURSIVE Gcd(_, _)
Gcd(a, b) == IF b = 0 THEN a ELSE Gcd(b, a % b)

\* an angle as a fraction of the full turn, reduced and taken modulo one turn
Turn(p, q) ==
    LET g == Gcd(q, p % q)
    IN <<(p % q) \div g, q \div g>>

\* [cos(angle) * radius, y, sin(angle) * radius]; lengths in tenths of a unit,
\* y = base + amp * sin(phase)
Position(radius, turn, base, amp, phase) ==
    [radius |-> radius,
     turn |-> IF radius = 0 THEN <<0, 1>> ELSE turn,
     y |-> [base |-> base,
            amp |-> amp,
            phase |-> IF amp = 0 THEN <<0, 1>> ELSE phase]]

Origin == Position(0, <<0, 1>>, 0, 0, <<0, 1>>)

\* label.toLowerCase().includes(word), on the labels of the pool
LabelIncludes(label, word) == label = "End User" /\ word = "user"

IsEntity(node) ==
    \/ LabelIncludes(node.label, "user")
    \/ LabelIncludes(node.label, "client")
    \/ LabelIncludes(node.label, "empl")
    \/ LabelIncludes(node.label, "group")
    \/ node.semantic_type = "entity"

IsCore(c) == (IF c.depth_level = Undefined THEN 0 ELSE c.depth_level) = 0

InnerRadius == 160
OuterRadius == 280
OuterWave == 80

\* the orbital layout: root at the centre, entities on the inner ring (or the
\* first half of the others when there is no entity), the rest on the outer
OrbitalNodes3D(data) ==
    IF Len(data.concepts) = 0 THEN <<>>
    ELSE
    LET rootNodes == SelectSeq(data.concepts, IsCore)
        root == IF Len(rootNodes) > 0 THEN rootNodes[1] ELSE data.concepts[1]
        NotRoot(c) == c.id # root.id
        NotEntity(c) == ~IsEntity(c)
        remainders == SelectSeq(data.concepts, NotRoot)
        entities == SelectSeq(remainders, IsEntity)
        others == SelectSeq(remainders, NotEntity)
        half == (Len(others) + 1) \div 2
        inner == IF Len(entities) = 0 THEN SubSeq(others, 1, half) ELSE entities
        outer == IF Len(entities) = 0 THEN SubSeq(others, half + 1, Len(others))
                 ELSE others
        ni == Max(1, Len(inner))
        no == Max(1, Len(outer))
    IN <<[id |-> root.id, side |-> "center", position |-> Origin]>>
       \o [i \in 1..Len(inner) |->
             [id |-> inner[i].id, side |-> "left",
              position |-> Position(InnerRadius, Turn(i - 1, ni), 0, 0, <<0, 1>>)]]
       \o [i \in 1..Len(outer) |->
             [id |-> outer[i].id, side |-> "right",
              position |-> Position(OuterRadius, Turn(8 * (i - 1) + no, 8 * no),
                                    0, OuterWave, Turn(2 * (8 * (i - 1) + no), 8 * no))]]

CoreRadius == 30
OffsetBase == 15
OffsetPerDepth == 8
\* (abstraction / 10) * 6 - 2 with abstraction_level absent (5)
DefaultHeight == 10

\* values of Math.random(), as fractions of one
RandomTurns == {<<0, 1>>, <<1, 4>>, <<1, 2>>}

\* the hierarchical layout for concepts without parent_concepts: core
\* concepts on a ring, every other one at a random angle round the origin;
\* random[i] is the draw for the i-th remaining concept
HierarchicalNodes3D(data, random) ==
    LET NotCore(c) == ~IsCore(c)
        coreNodes == SelectSeq(data.concepts, IsCore)
        positioned == {coreNodes[i].id : i \in 1..Len(coreNodes)}
        NotPositioned(c) == c.id \notin positioned
        remainingNodes == SelectSeq(data.concepts, NotPositioned)
        nc == Max(Len(coreNodes), 1)
    IN [i \in 1..Len(coreNodes) |->
           [id |-> coreNodes[i].id, side |-> "core",
            position |-> Position(CoreRadius, Turn(i - 1, nc), DefaultHeight, 0, <<0, 1>>)]]
       \o [i \in 1..Len(remainingNodes) |->
             [id |-> remainingNodes[i].id, side |-> "detail",
              position |-> Position(OffsetBase + remainingNodes[i].depth_level * OffsetPerDepth,
                                    random[i], DefaultHeight, 0, <<0, 1>>)]]

RemainingCount(data) ==
    LET coreIds == {data.concepts[i].id : i \in {j \in 1..Len(data.concepts) : IsCore(data.concepts[j])}}
    IN Cardinality({i \in 1..Len(data.concepts) : data.concepts[i].id \notin coreIds})

\* ---- actions: the layout useMemo, run at every mount of the component ----
layoutFrame == <<server, initialDocumentId, initialDocumentTitle, documentId,
                 documentTitle, isLoadingGraph, selectedNode, selectedEdge,
                 visibleNodeIds, inflight, nextReq, effectPending, sceneVars, appVars,
                 widgetVars>>

\* variant of the orbital layout that may hand out the slots in reverse
LayoutOrbitalReversing ==
    /\ ~graphData.null
    /\ layoutVariant \in {"none", "orbital"}
    /\ layoutVariant' = "orbital"
    /\ LET base == OrbitalNodes3D(graphData)
           reversed == [i \in 1..Len(base) |->
                          [base[i] EXCEPT !.position =
                               base[Len(base) + 1 - i].position]]
       IN nodes3D' \in {base, reversed}
    /\ hoveredEdgeId' = NoEdge
    /\ UNCHANGED <<graphData, layoutFrame>>

LayoutOrbital ==
    /\ ~graphData.null
    /\ layoutVariant \in {"none", "orbital"}
    /\ layoutVariant' = "orbital"
    /\ nodes3D' = OrbitalNodes3D(graphData)
    /\ hoveredEdgeId' = NoEdge
    /\ UNCHANGED <<graphData, layoutFrame>>

LayoutHierarchical ==
    /\ ~graphData.null
    /\ layoutVariant \in {"none", "hierarchical"}
    /\ layoutVariant' = "hierarchical"
    /\ \E random \in [1..RemainingCount(graphData) -> RandomTurns] :
          nodes3D' = HierarchicalNodes3D(graphData, random)
    /\ hoveredEdgeId' = NoEdge
    /\ UNCHANGED <<graphData, layoutFrame>>

LayoutInitNone ==
    /\ layoutVariant = "none"
    /\ nodes3D = <<>>
    /\ hoveredEdgeId = NoEdge

\* --------------------------------------------------------------------------
\* ConceptGraph3D (orbital variant): Scene
\* --------------------------------------------------------------------------
Nodes3DIds == {nodes3D[i].id : i \in 1..Len(nodes3D)}

\* the lines the orbital Scene draws: both ends are found among the nodes
OrbitalEdges ==
    {i \in 1..Len(graphData.relationships) :
        /\ graphData.relationships[i].source \in Nodes3DIds
        /\ graphData.relationships[i].target \in Nodes3DIds}

\* variant of the highlight that follows relationships forwards only
HighlightSetOutgoing(data, selectedNodeId, selectedEdgeId) ==
    (IF selectedNodeId # NULL
     THEN {selectedNodeId} \cup
          {data.relationships[i].target :
              i \in {j \in 1..Len(data.relationships) :
                        data.relationships[j].source = selectedNodeId}}
     ELSE {})
    \cup
    (IF \E i \in 1..Len(data.relationships) : EdgeId(data, i) = selectedEdgeId
     THEN LET k == CHOOSE i \in 1..Len(data.relationships) :
                      /\ EdgeId(data, i) = selectedEdgeId
                      /\ \A j \in 1..(i - 1) : EdgeId(data, j) # selectedEdgeId
          IN {data.relationships[k].source, data.relationships[k].target}
     ELSE {})

\* the highlightSet useMemo; edges.find takes the first edge with the id
HighlightSet(data, selectedNodeId, selectedEdgeId) ==
    (IF selectedNodeId # NULL
     THEN {selectedNodeId} \cup
          {data.relationships[i].target :
              i \in {j \in 1..Len(data.relationships) :
                        data.relationships[j].source = selectedNodeId}} \cup
          {data.relationships[i].source :
              i \in {j \in 1..Len(data.relationships) :
                        data.relationships[j].target = selectedNodeId}}
     ELSE {})
    \cup
    (IF \E i \in 1..Len(data.relationships) : EdgeId(data, i) = selectedEdgeId
     THEN LET k == CHOOSE i \in 1..Len(data.relationships) :
                      /\ EdgeId(data, i) = selectedEdgeId
                      /\ \A j \in 1..(i - 1) : EdgeId(data, j) # selectedEdgeId
          IN {data.relationships[k].source, data.relationships[k].target}
     ELSE {})

highlightSet == HighlightSet(graphData, selectedNode, selectedEdge)

\* the isActive prop the Scene hands to the ConnectionLine of edge i (white,
\* lineWidth 3, opacity 0.9 when set; lineWidth 1, opacity 0.6 otherwise)
IsActive(i) ==
    LET edge == graphData.relationships[i]
        isConnectedToSelection == /\ edge.source \in highlightSet
                                  /\ edge.target \in highlightSet
        isHovered == hoveredEdgeId = EdgeId(graphData, i)
        isSelected == selectedEdge = EdgeId(graphData, i)
    IN isConnectedToSelection \/ isHovered \/ isSelected

orbitalFrame == <<server, initialDocumentId, initialDocumentTitle, documentId,
                  documentTitle, graphData, isLoadingGraph, visibleNodeIds,
                  inflight, nextReq, effectPending, sceneVars, appVars,
                  layoutVariant, nodes3D,
                 widgetVars>>

\* ConnectionLine onPointerOver -> onHover
OrbitalEdgeHover(i) ==
    /\ layoutVariant = "orbital"
    /\ i \in OrbitalEdges
    /\ hoveredEdgeId' = EdgeId(graphData, i)
    /\ UNCHANGED <<orbitalFrame, selectedNode, selectedEdge>>

\* ConnectionLine onPointerOut -> onUnhover
OrbitalEdgeUnhover(i) ==
    /\ layoutVariant = "orbital"
    /\ i \in OrbitalEdges
    /\ hoveredEdgeId' = NoEdge
    /\ UNCHANGED <<orbitalFrame, selectedNode, selectedEdge>>

\* NodeCard onClick -> onNodeClick = onNodeSelect
OrbitalNodeClick(id) ==
    /\ layoutVariant = "orbital"
    /\ id \in Nodes3DIds
    /\ HandleNodeSelect(id)
    /\ UNCHANGED <<orbitalFrame, hoveredEdgeId>>

\* ConnectionLine onClick -> onEdgeClick = onEdgeSelect
OrbitalEdgeClick(i) ==
    /\ layoutVariant = "orbital"
    /\ i \in OrbitalEdges
    /\ HandleEdgeSelect(i)
    /\ UNCHANGED <<orbitalFrame, hoveredEdgeId>>

\* Canvas onPointerMissed -> onBackgroundClick; RightPanel onClose
OrbitalClosePanel ==
    /\ layoutVariant = "orbital"
    /\ selectedNode' = NULL
    /\ selectedEdge' = NoEdge
    /\ UNCHANGED <<orbitalFrame, hoveredEdgeId>>

\* --------------------------------------------------------------------------
\* Legacy App: upload view, 2D ConceptGraph, SimulationPanel
\* --------------------------------------------------------------------------
NoStats == <<>>

\* the render branch that mounts the 2D <ConceptGraph/> and <SimulationPanel/>
AppGraphShown ==
    /\ appView = "graph"
    /\ ~appIsLoadingGraph
    /\ ~appGraphData.null
    /\ Len(appGraphData.concepts) > 0

\* the 2D ConceptGraph's drawing effect after a commit of App. Its
\* dependencies are graphData, dimensions, selectedNodeId, selectedEdgeId and
\* the two callbacks: when one changes it clears the svg, copies the concepts
\* into fresh nodes and starts a new simulation; unmounting stops it.
\* newGraph: graphData is a new object
AppSimulationFollows(newGraph) ==
    IF /\ appView' = "graph"
       /\ ~appIsLoadingGraph'
       /\ ~appGraphData'.null
       /\ Len(appGraphData'.concepts) > 0
    THEN IF \/ ~AppGraphShown
            \/ newGraph
            \/ appSelectedNode' # appSelectedNode
            \/ appSelectedEdge' # appSelectedEdge
         THEN appSimulation' = "initial"
         ELSE UNCHANGED appSimulation
    ELSE appSimulation' = "none"

\* handleDocumentProcessed up to its await (DocumentUpload is mounted in the
\* upload view only)
AppHandleDocumentProcessed(doc) ==
    /\ appView = "upload"
    /\ nextReq < MaxFetches
    /\ appDocumentTitle' = TitleOf(doc)
    /\ appStats' = <<Len(server[doc].concepts), Len(server[doc].relationships)>>
    /\ appIsLoadingGraph' = TRUE
    /\ appInflight' = appInflight \cup {[req |-> nextReq, doc |-> doc]}
    /\ nextReq' = nextReq + 1
    /\ UNCHANGED <<appView, appGraphData, appSelectedNode, appSelectedEdge>>
    /\ UNCHANGED <<server, initialDocumentId, initialDocumentTitle, documentId,
                   documentTitle, graphData, isLoadingGraph, selectedNode,
                   selectedEdge, visibleNodeIds, inflight, effectPending>>
    /\ UNCHANGED <<sceneVars, layoutVars, widgetVars>>
    /\ AppSimulationFollows(FALSE)

\* handleDocumentProcessed after its await: try, finally
AppFetchResolve(r) ==
    /\ r \in appInflight
    /\ appInflight' = appInflight \ {r}
    /\ appGraphData' = server[r.doc]
    /\ appView' = "graph"
    /\ appIsLoadingGraph' = FALSE
    /\ UNCHANGED <<appDocumentTitle, appSelectedNode, appSelectedEdge, appStats>>
    /\ UNCHANGED <<server, pageVars, sceneVars, layoutVars, widgetVars>>
    /\ AppSimulationFollows(TRUE)

\* handleDocumentProcessed after its await: catch, finally
AppFetchReject(r) ==
    /\ r \in appInflight
    /\ appInflight' = appInflight \ {r}
    /\ appIsLoadingGraph' = FALSE
    /\ UNCHANGED <<appView, appDocumentTitle, appGraphData, appSelectedNode,
                   appSelectedEdge, appStats>>
    /\ UNCHANGED <<server, pageVars, sceneVars, layoutVars, widgetVars>>
    /\ AppSimulationFollows(FALSE)

\* handleNodeClick, called by the 2D graph's node click
AppHandleNodeClick(id) ==
    /\ AppGraphShown
    /\ id \in ConceptIds(appGraphData)
    /\ appSelectedNode' = id
    /\ appSelectedEdge' = NoEdge
    /\ UNCHANGED <<appView, appDocumentTitle, appGraphData, appIsLoadingGraph,
                   appStats, appInflight>>
    /\ UNCHANGED <<server, pageVars, sceneVars, layoutVars, widgetVars>>
    /\ AppSimulationFollows(FALSE)

\* handleEdgeClick, called by the 2D graph's line click
AppHandleEdgeClick(i) ==
    /\ AppGraphShown
    /\ i \in 1..Len(appGraphData.relationships)
    /\ appSelectedEdge' = EdgeId(appGraphData, i)
    /\ appSelectedNode' = NULL
    /\ UNCHANGED <<appView, appDocumentTitle, appGraphData, appIsLoadingGraph,
                   appStats, appInflight>>
    /\ UNCHANGED <<server, pageVars, sceneVars, layoutVars, widgetVars>>
    /\ AppSimulationFollows(FALSE)

\* handleClosePanel (SimulationPanel onClose)
AppHandleClosePanel ==
    /\ AppGraphShown
    /\ appSelectedNode' = NULL
    /\ appSelectedEdge' = NoEdge
    /\ UNCHANGED <<appView, appDocumentTitle, appGraphData, appIsLoadingGraph,
                   appStats, appInflight>>
    /\ UNCHANGED <<server, pageVars, sceneVars, layoutVars, widgetVars>>
    /\ AppSimulationFollows(FALSE)

\* handleBackToUpload (header "Back", "Try Again")
AppHandleBackToUpload ==
    /\ appView = "graph"
    /\ appView' = "upload"
    /\ appGraphData' = NullGraph
    /\ appSelectedNode' = NULL
    /\ appSelectedEdge' = NoEdge
    /\ appStats' = NoStats
    /\ UNCHANGED <<appDocumentTitle, appIsLoadingGraph, appInflight>>
    /\ UNCHANGED <<server, pageVars, sceneVars, layoutVars, widgetVars>>
    /\ AppSimulationFollows(FALSE)

\* the simulation's timer: first tick after a start, then cooling to rest
AppSimulationTick ==
    /\ appSimulation = "initial"
    /\ appSimulation' = "running"
    /\ UNCHANGED <<appView, appDocumentTitle, appGraphData, appSelectedNode,
                   appSelectedEdge, appIsLoadingGraph, appStats, appInflight>>
    /\ UNCHANGED <<server, pageVars, sceneVars, layoutVars, widgetVars>>

AppSimulationEnd ==
    /\ appSimulation = "running"
    /\ appSimulation' = "settled"
    /\ UNCHANGED <<appView, appDocumentTitle, appGraphData, appSelectedNode,
                   appSelectedEdge, appIsLoadingGraph, appStats, appInflight>>
    /\ UNCHANGED <<server, pageVars, sceneVars, layoutVars, widgetVars>>

\* d3.drag on a node: pins it and reheats the simulation
AppNodeDrag(id) ==
    /\ AppGraphShown
    /\ appSimulation \in {"initial", "running", "settled"}
    /\ id \in ConceptIds(appGraphData)
    /\ appSimulation' = "running"
    /\ UNCHANGED <<appView, appDocumentTitle, appGraphData, appSelectedNode,
                   appSelectedEdge, appIsLoadingGraph, appStats, appInflight>>
    /\ UNCHANGED <<server, pageVars, sceneVars, layoutVars, widgetVars>>

AppInit ==
    /\ appView = "upload"
    /\ appDocumentTitle = ""
    /\ appGraphData = NullGraph
    /\ appSelectedNode = NULL
    /\ appSelectedEdge = NoEdge
    /\ appIsLoadingGraph = FALSE
    /\ appStats = NoStats
    /\ appInflight = {}
    /\ appSimulation = "none"

AppNext ==
    \/ \E doc \in Docs : AppHandleDocumentProcessed(doc)
    \/ \E r \in appInflight : AppFetchResolve(r)
    \/ \E r \in appInflight : AppFetchReject(r)
    \/ \E id \in ConceptIds(appGraphData) : AppHandleNodeClick(id)
    \/ \E i \in 1..Len(appGraphData.relationships) : AppHandleEdgeClick(i)
    \/ AppHandleClosePanel
    \/ AppHandleBackToUpload
    \/ AppSimulationTick
    \/ AppSimulationEnd
    \/ \E id \in ConceptIds(appGraphData) : AppNodeDrag(id)

\* --------------------------------------------------------------------------
\* EnhancedConceptGraph: single / double click detection
\* --------------------------------------------------------------------------
MaxClicks == 3

WidgetInit ==
    /\ clickTimerRef = 0
    /\ lastClickedNodeRef = NULL
    /\ clickTimers = <<>>
    /\ timersMade = 0
    /\ emitted = <<>>
    /\ cards = 0
    /\ currentIndex = 0
    /\ isFlipped = FALSE
    /\ indexTimers = <<>>

clickVars == <<clickTimerRef, lastClickedNodeRef, clickTimers, timersMade, emitted>>
cardVars == <<cards, currentIndex, isFlipped, indexTimers>>

\* handleNodeClick; clearTimeout of a timer that has fired does nothing
EnhancedHandleNodeClick(node) ==
    /\ timersMade + Len(SelectSeq(emitted, LAMBDA e : e[1] = "expand")) < MaxClicks
    /\ IF clickTimerRef # 0 /\ lastClickedNodeRef = node
       THEN /\ clickTimers' = SelectSeq(clickTimers,
                                        LAMBDA t : t.id # clickTimerRef)
            /\ clickTimerRef' = 0
            /\ lastClickedNodeRef' = NULL
            /\ emitted' = Append(emitted, <<"expand", node>>)
            /\ UNCHANGED timersMade
       ELSE /\ lastClickedNodeRef' = node
            /\ timersMade' = timersMade + 1
            /\ clickTimerRef' = timersMade + 1
            /\ clickTimers' = Append(clickTimers,
                                     [id |-> timersMade + 1, node |-> node])
            /\ UNCHANGED emitted
    /\ UNCHANGED <<server, pageVars, sceneVars, appVars, layoutVars, cardVars>>

\* the setTimeout callback; equal delays, so the oldest timer fires first
EnhancedClickTimeout ==
    /\ Len(clickTimers) > 0
    /\ clickTimers' = Tail(clickTimers)
    /\ clickTimerRef' = 0
    /\ lastClickedNodeRef' = NULL
    /\ emitted' = Append(emitted, <<"select", Head(clickTimers).node>>)
    /\ UNCHANGED timersMade
    /\ UNCHANGED <<server, pageVars, sceneVars, appVars, layoutVars, cardVars>>

\* --------------------------------------------------------------------------
\* FlashcardDialog
\* --------------------------------------------------------------------------
MaxCards == 3
MaxIndexTimers == 3

\* the dialog has got past `const currentCard = cards[currentIndex]` and
\* its uses: the cards are loaded and the index names one of them
CardShown == cards > 0 /\ currentIndex \in 0..(cards - 1)

\* loadFlashcards resolves with n cards
LoadFlashcards(n) ==
    /\ cards = 0
    /\ cards' = n
    /\ UNCHANGED <<currentIndex, isFlipped, indexTimers>>
    /\ UNCHANGED <<server, pageVars, sceneVars, appVars, layoutVars, clickVars>>

HandleNext ==
    /\ CardShown
    /\ Len(indexTimers) < MaxIndexTimers
    /\ IF currentIndex < cards - 1
       THEN /\ isFlipped' = FALSE
            /\ indexTimers' = Append(indexTimers, 1)
       ELSE UNCHANGED <<isFlipped, indexTimers>>
    /\ UNCHANGED <<cards, currentIndex>>
    /\ UNCHANGED <<server, pageVars, sceneVars, appVars, layoutVars, clickVars>>

HandlePrev ==
    /\ CardShown
    /\ Len(indexTimers) < MaxIndexTimers
    /\ IF currentIndex > 0
       THEN /\ isFlipped' = FALSE
            /\ indexTimers' = Append(indexTimers, -1)
       ELSE UNCHANGED <<isFlipped, indexTimers>>
    /\ UNCHANGED <<cards, currentIndex>>
    /\ UNCHANGED <<server, pageVars, sceneVars, appVars, layoutVars, clickVars>>

HandleFlip ==
    /\ CardShown
    /\ isFlipped' = ~isFlipped
    /\ UNCHANGED <<cards, currentIndex, indexTimers>>
    /\ UNCHANGED <<server, pageVars, sceneVars, appVars, layoutVars, clickVars>>

\* the Restart button's onClick
HandleRestart ==
    /\ CardShown
    /\ isFlipped' = FALSE
    /\ currentIndex' = 0
    /\ UNCHANGED <<cards, indexTimers>>
    /\ UNCHANGED <<server, pageVars, sceneVars, appVars, layoutVars, clickVars>>

\* the setTimeout callback: setCurrentIndex(i => i + 1) or (i => i - 1)
IndexTimeout ==
    /\ CardShown
    /\ Len(indexTimers) > 0
    /\ currentIndex' = currentIndex + Head(indexTimers)
    /\ indexTimers' = Tail(indexTimers)
    /\ UNCHANGED <<cards, isFlipped>>
    /\ UNCHANGED <<server, pageVars, sceneVars, appVars, layoutVars, clickVars>>

\* --------------------------------------------------------------------------
\* Specification of the page: loads, expansion and selection
\* --------------------------------------------------------------------------
PageInit(doc) ==
    /\ initialDocumentId = doc
    /\ initialDocumentTitle = TitleOf(doc)
    /\ documentId = doc
    /\ documentTitle = TitleOf(doc)
    /\ graphData = NullGraph
    /\ isLoadingGraph = FALSE
    /\ selectedNode = NULL
    /\ selectedEdge = NoEdge
    /\ visibleNodeIds = {}
    /\ inflight = {}
    /\ nextReq = 0
    /\ effectPending = TRUE

SceneInitNone ==
    /\ sceneStatus = "none"
    /\ camera = InitialCamera
    /\ cameraDistance = InitialCameraDistance
    /\ currentZoom = InitialZoom
    /\ zoomDelta = 0
    /\ opacity = NoOpacity
    /\ hovered = {}
    /\ frames = 0

Init ==
    /\ server \in {[d \in Docs |-> IF d = "d1" THEN g ELSE ScenarioGraph] : g \in AllGraphs}
    /\ \E doc \in Docs : PageInit(doc)
    /\ SceneInitNone
    /\ AppInit
    /\ WidgetInit
    /\ LayoutInitNone

PageNext ==
    \/ \E doc \in Docs : Navigate(doc)
    \/ RunEffect
    \/ \E r \in inflight : FetchResolve(r)
    \/ \E r \in inflight : FetchReject(r)
    \/ \E id \in ConceptIds(graphData) : OnNodeSelect(id)
    \/ \E id \in ConceptIds(graphData) : OnNodeExpand(id)
    \/ \E i \in 1..Len(graphData.relationships) : OnEdgeSelect(i)
    \/ ClosePanel

Next == PageNext

Spec == Init /\ [][Next]_vars

\* the page when every fetch is answered
NextLoads ==
    \/ \E doc \in Docs : Navigate(doc)
    \/ RunEffect
    \/ \E r \in inflight : FetchResolve(r)
    \/ \E id \in ConceptIds(graphData) : OnNodeExpand(id)

SpecLoads == Init /\ [][NextLoads]_vars

\* --------------------------------------------------------------------------
\* Specification of one mounted scene: a loaded graph, camera, frames, clicks
\* --------------------------------------------------------------------------
InitScene ==
    \E g \in SceneGraphs :
        /\ server = [d \in Docs |-> g]
        /\ initialDocumentId = "d1"
        /\ initialDocumentTitle = TitleOf("d1")
        /\ documentId = "d1"
        /\ documentTitle = TitleOf("d1")
        /\ graphData = g
        /\ isLoadingGraph = FALSE
        /\ selectedNode = NULL
        /\ selectedEdge = NoEdge
        /\ visibleNodeIds = TopNodes(g)
        /\ inflight = {}
        /\ nextReq = 1
        /\ effectPending = FALSE
        /\ IF Mounts(FALSE, g, TopNodes(g)) /\ ~ForceLayoutThrows(g)
           THEN /\ sceneStatus = "live"
                /\ opacity = [id \in ConceptIds(g) |-> 0]
           ELSE /\ sceneStatus = IF Mounts(FALSE, g, TopNodes(g)) THEN "crashed" ELSE "none"
                /\ opacity = NoOpacity
        /\ camera = InitialCamera
        /\ cameraDistance = InitialCameraDistance
        /\ currentZoom = InitialZoom
        /\ zoomDelta = 0
        /\ hovered = {}
        /\ frames = 0
        /\ AppInit
        /\ WidgetInit
        /\ LayoutInitNone

NextScene ==
    \/ Frame
    \/ \E d \in CameraSamples : OrbitChange(d)
    \/ OrbitEnd
    \/ HandleZoomIn
    \/ HandleZoomOut
    \/ \E id \in ConceptIds(graphData) : PointerOver(id)
    \/ \E id \in ConceptIds(graphData) : PointerOut(id)
    \/ \E id \in ConceptIds(graphData) : NodeClick(id)
    \/ \E id \in ConceptIds(graphData) : NodeDoubleClick(id)
    \/ \E i \in 1..Len(graphData.relationships) : EdgeClick(i)
    \/ ClosePanel

SpecScene == InitScene /\ [][NextScene]_vars

\* getVisibleDepth: the deepest level the zoom indicator marks as active
GetVisibleDepth(distance) ==
    IF distance # NaN /\ distance < LOD_THRESHOLDS[3] THEN 3
    ELSE IF distance # NaN /\ distance < LOD_THRESHOLDS[2] THEN 2
    ELSE IF distance # NaN /\ distance < LOD_THRESHOLDS[1] THEN 1
    ELSE 0

\* the camera of the d3-force scene, with samples that are not numbers and
\* samples on either side of the threshold of level 2
NextCamera ==
    \/ Frame
    \/ \E d \in CameraSamples \cup {1790, 1810} : OrbitChange(d)
    \/ OrbitNaN
    \/ OrbitEnd
    \/ HandleZoomIn
    \/ HandleZoomOut

SpecCamera == InitScene /\ [][NextCamera]_vars

\* --------------------------------------------------------------------------
\* Specification of the selection handlers: the page and the legacy App
\* --------------------------------------------------------------------------
InitSelect ==
    /\ server = [d \in Docs |-> ScenarioGraph]
    /\ PageInit("d1")
    /\ SceneInitNone
    /\ AppInit
    /\ WidgetInit
    /\ LayoutInitNone

NextSelect == PageNext \/ AppNext

SpecSelect == InitSelect /\ [][NextSelect]_vars

\* --------------------------------------------------------------------------
\* Specification of the layouts: a loaded graph is handed to the hierarchical
\* or to the orbital ConceptGraph3D, which may be mounted again
\* --------------------------------------------------------------------------
InitLayout ==
    \E g \in LayoutGraphs :
        /\ server = [d \in Docs |-> g]
        /\ initialDocumentId = "d1"
        /\ initialDocumentTitle = TitleOf("d1")
        /\ documentId = "d1"
        /\ documentTitle = TitleOf("d1")
        /\ graphData = g
        /\ isLoadingGraph = FALSE
        /\ selectedNode = NULL
        /\ selectedEdge = NoEdge
        /\ visibleNodeIds = TopNodes(g)
        /\ inflight = {}
        /\ nextReq = 1
        /\ effectPending = FALSE
        /\ SceneInitNone
        /\ AppInit
        /\ WidgetInit
        /\ LayoutInitNone

NextLayout ==
    \/ LayoutOrbital
    \/ LayoutHierarchical

SpecLayout == InitLayout /\ [][NextLayout]_vars

\* --------------------------------------------------------------------------
\* Specification of the pointer events: hover and click, on the d3-force
\* scene or on the orbital scene, over a loaded graph
\* --------------------------------------------------------------------------
\* three concepts, each related to the two others
TriangleGraph ==
    Graph(<<NodeA, NodeB, NodeC>>, <<Rel("A", "B"), Rel("A", "C"), Rel("B", "C")>>)

PageLoaded(g) ==
    /\ server = [d \in Docs |-> g]
    /\ initialDocumentId = "d1"
    /\ initialDocumentTitle = TitleOf("d1")
    /\ documentId = "d1"
    /\ documentTitle = TitleOf("d1")
    /\ graphData = g
    /\ isLoadingGraph = FALSE
    /\ selectedNode = NULL
    /\ selectedEdge = NoEdge
    /\ visibleNodeIds = TopNodes(g)
    /\ inflight = {}
    /\ nextReq = 1
    /\ effectPending = FALSE

InitOrbital ==
    \E g \in SceneGraphs \cup {TriangleGraph} :
        /\ PageLoaded(g)
        /\ SceneInitNone
        /\ AppInit
        /\ WidgetInit
        /\ layoutVariant = "orbital"
        /\ nodes3D = OrbitalNodes3D(g)
        /\ hoveredEdgeId = NoEdge

InitHover == InitScene \/ InitOrbital

NextHover ==
    \/ Frame
    \/ \E id \in ConceptIds(graphData) : PointerOver(id)
    \/ \E id \in ConceptIds(graphData) : PointerOut(id)
    \/ \E id \in ConceptIds(graphData) : NodeClick(id)
    \/ \E i \in 1..Len(graphData.relationships) : EdgeClick(i)
    \/ ClosePanel
    \/ \E i \in 1..Len(graphData.relationships) : OrbitalEdgeHover(i)
    \/ \E i \in 1..Len(graphData.relationships) : OrbitalEdgeUnhover(i)
    \/ \E id \in ConceptIds(graphData) : OrbitalNodeClick(id)
    \/ \E i \in 1..Len(graphData.relationships) : OrbitalEdgeClick(i)
    \/ OrbitalClosePanel

SpecHover == InitHover /\ [][NextHover]_vars

\* Specification of the click detection of EnhancedConceptGraph
InitWidgets ==
    /\ PageLoaded(ScenarioGraph)
    /\ SceneInitNone
    /\ AppInit
    /\ WidgetInit
    /\ LayoutInitNone

NextClick ==
    \/ \E node \in ConceptIds(graphData) : EnhancedHandleNodeClick(node)
    \/ EnhancedClickTimeout

SpecClick == InitWidgets /\ [][NextClick]_vars

\* Specification of the flashcard dialog
NextCards ==
    \/ \E n \in 1..MaxCards : LoadFlashcards(n)
    \/ HandleNext
    \/ HandlePrev
    \/ HandleFlip
    \/ HandleRestart
    \/ IndexTimeout

SpecCards == InitWidgets /\ [][NextCards]_vars

\* --------------------------------------------------------------------------
\* Properties
\* --------------------------------------------------------------------------
\* a step of loadGraph: its start inside the effect, or the arrival of an answer
LoadStep == RunEffect \/ \E r \in inflight : FetchResolve(r)

\* C1: within a session VisibleSet never loses an element: every step that is
\* not a step of loadGraph (expand, select, edge select, close, a failed
\* fetch, a navigation) leaves visibleNodeIds a superset of what it was.
C1_VisibleSetOnlyGrows ==
    [][LoadStep \/ visibleNodeIds \subseteq visibleNodeIds']_vars

\* an expansion has acted: the mounted graph shows more than its seed
C1_Witness ==
    /\ GraphMounted
    /\ TopNodes(graphData) \subseteq visibleNodeIds
    /\ visibleNodeIds # TopNodes(graphData)

\* C2: expand(v) is idempotent: after any expand(v) step, expanding v once
\* more on the resulting state gives the same VisibleSet.
C2_ExpandIdempotent ==
    [][\A id \in ConceptIds(graphData) :
          OnNodeExpand(id) =>
             ExpandVisible(visibleNodeIds', Neighbors(graphData', id)) = visibleNodeIds']_vars

\* the selected node has a neighbour outside the seed that is now revealed
C2_Witness ==
    /\ GraphMounted
    /\ selectedNode \in ConceptIds(graphData)
    /\ \E n \in Neighbors(graphData, selectedNode) :
          n \in visibleNodeIds /\ n \notin TopNodes(graphData)

\* C3: at most one committed selection: selectedNode and selectedEdge are never
\* both set, in the page and in the legacy App; a node-select event leaves the
\* edge selection empty and an edge-select event leaves the node selection
\* empty.
C3_SingleSelection ==
    /\ [](~(selectedNode # NULL /\ selectedEdge # NoEdge))
    /\ [](~(appSelectedNode # NULL /\ appSelectedEdge # NoEdge))
    /\ [][/\ (\E id \in ConceptIds(graphData) : OnNodeSelect(id) \/ OnNodeExpand(id))
               => selectedEdge' = NoEdge
          /\ (\E i \in 1..Len(graphData.relationships) : OnEdgeSelect(i))
               => selectedNode' = NULL
          /\ (\E id \in ConceptIds(appGraphData) : AppHandleNodeClick(id))
               => appSelectedEdge' = NoEdge
          /\ (\E i \in 1..Len(appGraphData.relationships) : AppHandleEdgeClick(i))
               => appSelectedNode' = NULL]_vars

\* an edge selection is committed in the page and in the legacy App, and no
\* node selection stands beside it
C3_Witness ==
    /\ selectedEdge # NoEdge /\ selectedNode = NULL
    /\ appSelectedEdge # NoEdge /\ appSelectedNode = NULL

\* camera distances on both sides of every threshold of the table and of the
\* fallback, and the ends of the camera's range
LodProbes ==
    UNION {{t - 1, t, t + 1} :
              t \in {LOD_THRESHOLDS[k] : k \in DOMAIN LOD_THRESHOLDS} \cup {LodFallback}}
    \cup {MinDistance, MaxDistance}

\* C4: LOD monotonicity: for every node of the mounted graph and every pair of
\* camera distances d1 < d2 (the probes, the camera's distance and the
\* tracked cameraDistance), a node LOD-visible at d2 is LOD-visible at d1.
C4_LodMonotone ==
    \A i \in 1..Len(graphData.concepts) :
        LET distances == LodProbes \cup {camera, cameraDistance}
            visibleAt == {d \in distances : IsNodeVisible(graphData.concepts[i], d)}
        IN \A d2 \in visibleAt : \A d1 \in distances : d1 < d2 => d1 \in visibleAt

\* a frame has applied the test at the tracked distance: some node is hidden
\* there and visible at a smaller probe, another node is visible at both
C4_Witness ==
    /\ sceneStatus = "live"
    /\ frames >= 1
    /\ \E i, j \in 1..Len(graphData.concepts) :
          /\ ~IsNodeVisible(graphData.concepts[i], cameraDistance)
          /\ \E d \in LodProbes :
                d < cameraDistance /\ IsNodeVisible(graphData.concepts[i], d)
                                   /\ IsNodeVisible(graphData.concepts[j], d)
          /\ IsNodeVisible(graphData.concepts[j], cameraDistance)

\* C5: in every rendered frame an edge is drawn if and only if both of its
\* endpoints are drawn.
C5_EdgeIffEndpointsRendered ==
    (sceneStatus = "live" /\ frames >= 1) =>
        \A i \in 1..Len(graphData.relationships) :
            i \in RenderedEdges <=>
                /\ graphData.relationships[i].source \in RenderedNodes
                /\ graphData.relationships[i].target \in RenderedNodes

\* C6: a graph with a relationship whose source or target is no concept is
\* laid out and composed without throwing, and that relationship is not drawn.
C6_DanglingRelationshipTolerated ==
    (/\ GraphMounted
     /\ \E i \in 1..Len(graphData.relationships) :
           \/ graphData.relationships[i].source \notin ConceptIds(graphData)
           \/ graphData.relationships[i].target \notin ConceptIds(graphData))
    => /\ sceneStatus = "live"
       /\ \A i \in RenderedEdges :
             /\ graphData.relationships[i].source \in ConceptIds(graphData)
             /\ graphData.relationships[i].target \in ConceptIds(graphData)

\* C7: the answer of a request is never applied once a newer request has
\* started: such an answer leaves graphData, documentId and VisibleSet alone.
C7_StaleLoadDiscarded ==
    [][\A r \in inflight :
          (FetchResolve(r) /\ r.req + 1 < nextReq)
             => UNCHANGED <<graphData, documentId, visibleNodeIds>>]_vars

\* C8: a node is drawn only if it is in VisibleSet, and an edge only if both
\* of its ends are (the claim's further condition, the distance test, is left
\* out of this statement: a node fading out is still drawn for some frames).
C8_RenderedOnlyFromVisibleSet ==
    sceneStatus = "live" =>
        /\ RenderedNodes \subseteq visibleNodeIds
        /\ \A i \in RenderedEdges :
              /\ graphData.relationships[i].source \in visibleNodeIds
              /\ graphData.relationships[i].target \in visibleNodeIds

C10_SeedNeverEmpty ==
    [][\A r \in inflight :
          (FetchResolve(r) /\ Len(graphData'.concepts) >= 1)
             => /\ visibleNodeIds' # {}
                /\ Mounts(isLoadingGraph', graphData', visibleNodeIds')]_vars

\* C11: for a graph with unique concept ids the layout gives every concept
\* exactly one position, no two concepts the same position, an empty layout
\* for no concept and the origin for a single concept.
C11_LayoutPositions ==
    (layoutVariant # "none" /\ UniqueIds(graphData)) =>
        /\ Len(nodes3D) = Len(graphData.concepts)
        /\ \A c \in ConceptIds(graphData) :
              Cardinality({i \in 1..Len(nodes3D) : nodes3D[i].id = c}) = 1
        /\ \A i, j \in 1..Len(nodes3D) :
              nodes3D[i].position = nodes3D[j].position => i = j
        /\ Len(graphData.concepts) = 1 => nodes3D[1].position = Origin

\* C12: a node at depth level k in 0..3 is LOD-visible at distance d iff
\* d < T_k; T_0 is infinite (a depth-0 node is visible at every finite camera
\* distance) and T_1 > T_2 > T_3.
C12_LodIffBelowThreshold ==
    /\ LOD_THRESHOLDS[1] > LOD_THRESHOLDS[2] /\ LOD_THRESHOLDS[2] > LOD_THRESHOLDS[3]
    /\ \A i \in 1..Len(graphData.concepts) :
          LET node == graphData.concepts[i]
              T == [k \in 0..3 |-> IF k = 0 THEN Infinity
                                   ELSE IF k = 1 THEN 25 * 100
                                   ELSE IF k = 2 THEN 18 * 100 ELSE 10 * 100]
          IN node.depth_level \in 0..3 =>
                \A d \in {x \in LodProbes \cup {camera, cameraDistance} : x < Infinity} :
                    /\ IsNodeVisible(node, d) <=> d < T[node.depth_level]
                    /\ node.depth_level = 0 => IsNodeVisible(node, d)

\* a frame has run with the tracked distance exactly on the threshold of a
\* node of the mounted graph, while a depth-0 node is mounted beside it
C12_Witness ==
    /\ sceneStatus = "live"
    /\ frames >= 1
    /\ \E i, j \in 1..Len(graphData.concepts) :
          /\ graphData.concepts[i].depth_level \in 1..3
          /\ cameraDistance = LOD_THRESHOLDS[graphData.concepts[i].depth_level]
          /\ graphData.concepts[j].depth_level = 0

\* C13: at every camera distance an edge is LOD-visible iff its source node
\* and its target node both are; EdgeLine is drawn on exactly that condition.
C13_EdgeVisibleIffBothEnds ==
    sceneStatus = "live" =>
        \A i \in 1..Len(graphData.relationships) :
            LET s == graphData.relationships[i].source
                t == graphData.relationships[i].target
            IN /\ \A d \in LodProbes \cup {camera, cameraDistance} :
                     IsEdgeVisible(graphData, s, t, d)
                        <=> /\ IsNodeVisible(NodeById(graphData, s), d)
                            /\ IsNodeVisible(NodeById(graphData, t), d)
               /\ i \in RenderedEdges
                     <=> /\ IsNodeVisible(NodeById(graphData, s), cameraDistance)
                         /\ IsNodeVisible(NodeById(graphData, t), cameraDistance)

\* an edge with one end visible and the other hidden at the tracked distance
C13_Witness ==
    /\ sceneStatus = "live"
    /\ frames >= 1
    /\ \E i \in 1..Len(graphData.relationships) :
          /\ i \notin RenderedEdges
          /\ IsNodeVisible(NodeById(graphData, graphData.relationships[i].source),
                           cameraDistance)
          /\ ~IsNodeVisible(NodeById(graphData, graphData.relationships[i].target),
                            cameraDistance)

\* C14: expand(v) makes VisibleSet exactly VisibleSet \cup N(v), N(v) being
\* every id joined to v by a relationship of the full graph, in either
\* direction; nothing else is added and nothing is removed.
C14_ExpandIsUnionWithNeighbours ==
    [][\A v \in ConceptIds(graphData) :
          OnNodeExpand(v) =>
             LET rels == graphData.relationships
                 N == {n \in {rels[i].source : i \in 1..Len(rels)}
                                \cup {rels[i].target : i \in 1..Len(rels)} :
                          \E i \in 1..Len(rels) :
                              \/ rels[i].source = v /\ rels[i].target = n
                              \/ rels[i].target = v /\ rels[i].source = n}
             IN visibleNodeIds' = visibleNodeIds \cup N]_vars

\* the hub has been expanded: its two leaves outside the seed are revealed,
\* the end of the tail, no neighbour of the hub, is not
C14_Witness ==
    /\ GraphMounted
    /\ graphData = HubGraph
    /\ selectedNode = "H"
    /\ {"L6", "L7"} \subseteq visibleNodeIds
    /\ "N" \notin visibleNodeIds

\* C15: HighlightSet is a function of the committed selection and the edge
\* list: {n} and every node sharing an edge with n for a selected node n, the
\* two ends for a selected edge, empty with nothing selected.
C15_HighlightSet ==
    LET rels == graphData.relationships
    IN /\ selectedNode # NULL =>
             highlightSet =
                {selectedNode} \cup
                {n \in ConceptIds(graphData) \cup {rels[i].source : i \in 1..Len(rels)}
                                             \cup {rels[i].target : i \in 1..Len(rels)} :
                    \E i \in 1..Len(rels) :
                        \/ rels[i].source = selectedNode /\ rels[i].target = n
                        \/ rels[i].target = selectedNode /\ rels[i].source = n}
       /\ selectedEdge # NoEdge => highlightSet = {selectedEdge[1], selectedEdge[2]}
       /\ (selectedNode = NULL /\ selectedEdge = NoEdge) => highlightSet = {}

\* the orbital scene with the middle node of a chain selected: a neighbour on
\* each side of it
C15_Witness ==
    /\ layoutVariant = "orbital"
    /\ selectedNode # NULL
    /\ \E i, j \in 1..Len(graphData.relationships) :
          /\ graphData.relationships[i].target = selectedNode
          /\ graphData.relationships[j].source = selectedNode
    /\ Cardinality(highlightSet) = 3

\* C16: hover enter and hover leave, on a node or on an edge, leave the
\* committed selection (selectedNode, selectedEdge) unchanged.
C16_HoverKeepsSelection ==
    [][(\/ \E id \in ConceptIds(graphData) : PointerOver(id) \/ PointerOut(id)
        \/ \E i \in 1..Len(graphData.relationships) :
              OrbitalEdgeHover(i) \/ OrbitalEdgeUnhover(i)
        \/ hovered' # hovered
        \/ hoveredEdgeId' # hoveredEdgeId)
       => UNCHANGED <<selectedNode, selectedEdge>>]_vars

\* a node is under the pointer while another node is the committed selection
C16_Witness ==
    /\ sceneStatus = "live"
    /\ hovered # {}
    /\ selectedNode # NULL
    /\ selectedNode \notin hovered

\* C17: once computed for a loaded graph, node positions are left unchanged
\* by expand and select events (of the page and of the legacy App): the laid
\* out graph and the state of its simulation stay what they were.
C17_PositionsStable ==
    [][(\/ \E id \in ConceptIds(graphData) : OnNodeSelect(id) \/ OnNodeExpand(id)
        \/ \E i \in 1..Len(graphData.relationships) : OnEdgeSelect(i)
        \/ \E id \in ConceptIds(appGraphData) : AppHandleNodeClick(id)
        \/ \E i \in 1..Len(appGraphData.relationships) : AppHandleEdgeClick(i))
       => UNCHANGED <<graphData, appGraphData, appSimulation>>]_vars

\* C18: a camera distance sample that is NaN or negative is treated as a
\* safe maximum distance: after the frame that samples it exactly the
\* depth-0 nodes are LOD-visible and deeper nodes are hidden.
C18_NaNCollapsesToCore ==
    [][(Frame /\ (camera' = NaN \/ camera' < 0))
       => \A id \in ConceptIds(graphData) :
              LET node == NodeById(graphData, id)
                  depthLevel == IF node.depth_level = Undefined THEN 0
                                ELSE node.depth_level
              IN IsNodeVisible(node, cameraDistance') <=> depthLevel = 0]_vars

C20_DuplicateIdDropped ==
    layoutVariant = "orbital" =>
        \A i, j \in 1..Len(nodes3D) : nodes3D[i].id = nodes3D[j].id => i = j

\* C21: an edge the orbital Scene draws is emphasized iff it is the hovered
\* edge, the selected edge, or one of its ends is the selected node.
C21_EmphasizedIffIncidentToFocus ==
    layoutVariant = "orbital" =>
        \A i \in OrbitalEdges :
            IsActive(i) <=>
                \/ hoveredEdgeId = EdgeId(graphData, i)
                \/ selectedEdge = EdgeId(graphData, i)
                \/ /\ selectedNode # NULL
                   /\ selectedNode \in {graphData.relationships[i].source,
                                        graphData.relationships[i].target}

\* C22: in the orbital layout of a graph with unique ids the node at the
\* origin is a concept of lowest depth_level of the graph (an absent level
\* counts as 0), and every other node is on a ring, not at the origin.
C22_RootIsLowestDepth ==
    (layoutVariant = "orbital" /\ UniqueIds(graphData)
        /\ Len(graphData.concepts) > 0) =>
        LET Depth(c) == IF c.depth_level = Undefined THEN 0 ELSE c.depth_level
            root == NodeById(graphData, nodes3D[1].id)
        IN /\ nodes3D[1].position = Origin
           /\ \A k \in 1..Len(graphData.concepts) :
                 Depth(root) <= Depth(graphData.concepts[k])
           /\ \A i \in 2..Len(nodes3D) :
                 /\ nodes3D[i].position # Origin
                 /\ nodes3D[i].side \in {"left", "right"}

\* C23: a click on a node whose previous click, the latest of all, is still
\* inside its 250 ms window (its timer is pending) is the second click of a
\* double click: it calls onNodeExpand for the node and takes the pending
\* timer away, so neither click selects.
C23_SecondClickInWindowExpands ==
    [][\A n \in ConceptIds(graphData) :
          (/\ EnhancedHandleNodeClick(n)
           /\ Len(clickTimers) > 0
           /\ clickTimers[Len(clickTimers)].id = timersMade
           /\ clickTimers[Len(clickTimers)].node = n)
          => /\ emitted' = Append(emitted, <<"expand", n>>)
             /\ Len(clickTimers') = Len(clickTimers) - 1]_vars

\* C30: in the flashcard dialog currentIndex stays within 0..cards.length-1
\* under every interleaving of Next, Previous and Restart clicks with the
\* delayed index updates, so the current card is always defined.
C30_CurrentCardDefined ==
    cards > 0 => currentIndex \in 0..(cards - 1)

\* C24: in every state VisibleSet holds only ids of concepts of the loaded
\* graph, after seeding and after expansions, also when a relationship names
\* an id that is not a concept.
C24_VisibleSetWithinGraph ==
    ~graphData.null => visibleNodeIds \subseteq ConceptIds(graphData)

\* C25: in a frame the opacity of every node moves toward its visibility
\* target (1 when LOD-visible at the committed camera distance, 0 when
\* hidden) by a tenth of the remaining gap: it stays within [0, 1], the gap
\* does not grow, and it never goes from 0 to 1 or from 1 to 0 in one frame.
C25_OpacityDamped ==
    [][Frame =>
         \A id \in DOMAIN opacity :
            LET target == IF IsNodeVisible(NodeById(graphData, id), cameraDistance)
                          THEN OpacityOne ELSE 0
                gap == Abs(target - opacity[id])
                moved == Abs(opacity'[id] - opacity[id])
            IN /\ opacity'[id] \in 0..OpacityOne
               /\ Abs(target - opacity'[id]) = gap - moved
               /\ 10 * moved <= gap + 9
               /\ 10 * moved > gap - 10
               /\ ~(opacity[id] = 0 /\ opacity'[id] = OpacityOne)
               /\ ~(opacity[id] = OpacityOne /\ opacity'[id] = 0)]_vars

\* after two frames one node has risen twice and another has risen and
\* fallen again
C25_Witness ==
    /\ sceneStatus = "live"
    /\ frames = 2
    /\ \E a, b \in DOMAIN opacity :
          /\ opacity[a] = 1900
          /\ opacity[b] = 900

C27_LoadingCoversFetches ==
    (Alive /\ ~effectPending /\ inflight # {}) =>
        (isLoadingGraph /\ ~GraphMounted)

\* C28: after the only fetch made so far, the one for the requested
\* document, has failed (nothing in flight, no graph, the requested document
\* unchanged), the load effect starts no further fetch.
C28_NoRefetchAfterFailure ==
    [][(/\ RunEffect
        /\ nextReq = 1
        /\ inflight = {}
        /\ graphData.null
        /\ initialDocumentId = documentId)
       => UNCHANGED <<inflight, nextReq, isLoadingGraph>>]_vars

\* C29: the zoom indicator agrees with LOD visibility: once the camera is
\* at rest (nothing left for a frame to track, the indicator synchronised
\* by the last control event), the indicator marks depth k as active iff
\* nodes of depth k pass the distance test.
C29_IndicatorAgreesWithLod ==
    (/\ sceneStatus = "live"
     /\ camera # NaN
     /\ zoomDelta = 0
     /\ currentZoom = camera
     /\ Abs(camera - cameraDistance) <= TrackingStep) =>
        \A k \in 0..3 :
            (GetVisibleDepth(currentZoom) >= k)
               <=> (cameraDistance # NaN /\ cameraDistance < LOD_THRESHOLDS[k])

====
